---- MODULE Spec2Model ----
(***************************************************************************)
(* Tool-calling orchestration of the Wind API: the tools registry          *)
(* (apps/tools_registry.py), the LLM provider adapter (agent/provider.py), *)
(* the built-in system tools (agent/tools.py) and the chat handler         *)
(* (main.py).  Text is a sequence of string tokens, so that f-strings and  *)
(* json.dumps are concatenations and not identities.                       *)
(***************************************************************************)
EXTENDS Integers, Sequences, FiniteSets, TLC

(***************************************************************************)
(* Bounds of the model.                                                    *)
(***************************************************************************)
\* largest number of tool calls a backend response carries
MaxCalls == 2

(***************************************************************************)
(* Values.                                                                 *)
(***************************************************************************)
None == "<None>"
Absent == "<absent>"

\* names a completion may ask for: a built-in name (which an extension may
\* also register), an extension name, and a name nobody knows
CallNames == {"web.navigate", "social.post", "ghost.tool"}
\* names extensions register in the catalog
CatalogNames == {"web.navigate", "social.post"}
Categories == {"social", "system"}
\* a synchronous and an asynchronous handler
Handlers == {"h_sync", "h_async"}
\* argument payloads: {}, a decoded mapping, the decode-error marker
ArgKinds == {"empty", "map", "marker"}
\* argument payloads a backend sends: decodable JSON, or not
BackendArgs == {"json", "garbage"}
\* what a handler or a system tool returns
Values == {"v1", "v2"}
UserIds == {None, "u1"}

User(c) == [role |-> "user", content |-> <<c>>, tool_call_id |-> None]
Assistant(c) == [role |-> "assistant", content |-> <<c>>, tool_call_id |-> None]
\* message histories a caller supplies
ReqHistories ==
    { <<>>, <<User("hi")>>, <<User("hi"), Assistant("yo"), User("bye")>> }

WIND_SYSTEM_PROMPT == "WIND_SYSTEM_PROMPT"

VARIABLES
    settings,        \* credentials configured for the process
    reg_tools,       \* ToolsRegistry._tools, in dict insertion order
    reg_handlers,    \* ToolsRegistry._handlers
    reg_categories,  \* ToolsRegistry._categories
    pc,              \* position of the chat handler
    request,         \* the ChatRequest being served
    messages,        \* chat: the list `messages`
    steps,           \* chat: the list `steps`
    response,        \* chat: `response` of the first completion
    tool_results,    \* chat: the list `tool_results`
    idx,             \* chat: position of the tool-call loop
    final_message,   \* the Message of the returned ChatResponse
    failure,         \* the exception that left the handler, if any
    completions,     \* log: arguments of every provider.acomplete call
    dispatched,      \* log: every handler or system tool invocation
    other,           \* the frame of a second chat coroutine, suspended
    probe,           \* outcome of a direct ToolsRegistry.handle call
    mail             \* the mail tables of one user and the last listing

vars == <<settings, reg_tools, reg_handlers, reg_categories, pc,
          request, messages, steps, response, tool_results, idx,
          final_message, failure, completions, dispatched, other, probe, mail>>

regVars == <<reg_tools, reg_handlers, reg_categories>>
reqVars == <<request, messages, steps, response, tool_results, idx,
             final_message, failure, completions, dispatched>>
\* state outside the running chat coroutine and the registry
auxVars == <<other, probe, mail>>

(***************************************************************************)
(* Sequence helpers.                                                       *)
(***************************************************************************)
Range(s) == { s[k] : k \in DOMAIN s }

RECURSIVE Flatten(_)
Flatten(ss) == IF ss = <<>> THEN <<>> ELSE Head(ss) \o Flatten(Tail(ss))

(***************************************************************************)
(* ToolsRegistry (apps/tools_registry.py).                                 *)
(***************************************************************************)
\* ToolParameter.enum: None, or a list of strings
NoEnum == [given |-> FALSE, values |-> <<>>]
Enum(values) == [given |-> TRUE, values |-> values]

ToolParameter(name, type, description, required, enum) ==
    [name |-> name, type |-> type, description |-> description,
     required |-> required, enum |-> enum]

ToolDefinition(name, description, parameters, category) ==
    [name |-> name, description |-> description, parameters |-> parameters,
     category |-> category]

\* definitions extensions register: two per name, which differ in their
\* category, description and parameters
ToolDefs ==
    { ToolDefinition("web.navigate", "Navigate to a URL",
          <<ToolParameter("url", "string", "The URL", TRUE, NoEnum)>>, "system"),
      ToolDefinition("web.navigate", "Open a page",
          <<ToolParameter("mode", "string", "How to open", FALSE, Enum(<<"tab", "window">>)),
            ToolParameter("url", "string", "The URL", TRUE, NoEnum)>>, "social"),
      ToolDefinition("social.post", "Create a post",
          <<ToolParameter("platform", "string", "Platform", TRUE, Enum(<<"twitter", "linkedin">>)),
            ToolParameter("content", "string", "Text", TRUE, NoEnum),
            ToolParameter("media", "array", "Media URLs", FALSE, Enum(<<>>)),
            ToolParameter("content", "string", "Text again", TRUE, Enum(<<"x">>))>>, "social"),
      ToolDefinition("social.post", "Post", <<>>, "system") }

HasTool(tools, name) == \E k \in DOMAIN tools : tools[k].name = name

\* variant: the first definition of a name is kept (setdefault)
DictSet_KeepFirst(tools, tool_def) ==
    IF HasTool(tools, tool_def.name) THEN tools ELSE Append(tools, tool_def)

\* self._tools[tool_def.name] = tool_def : a dict keeps the position of a
\* key that is assigned again and appends a new key
DictSet(tools, tool_def) ==
    IF HasTool(tools, tool_def.name)
    THEN [k \in DOMAIN tools |->
            IF tools[k].name = tool_def.name THEN tool_def ELSE tools[k]]
    ELSE Append(tools, tool_def)

NoHandler == "<no handler>"

NoDefinition == ToolDefinition(None, None, <<>>, None)

\* self._tools.get(tool_name)
GetTool(tools, tool_name) ==
    IF HasTool(tools, tool_name)
    THEN tools[CHOOSE k \in DOMAIN tools : tools[k].name = tool_name]
    ELSE NoDefinition

get_tool(tool_name) == GetTool(reg_tools, tool_name)

\* variant: a definition is enough
can_handle_DefinitionOnly(tool_name) == HasTool(reg_tools, tool_name)

\* ToolsRegistry.can_handle: the name is a key of _tools and of _handlers
can_handle(tool_name) ==
    /\ HasTool(reg_tools, tool_name)
    /\ tool_name \in DOMAIN reg_handlers
    /\ reg_handlers[tool_name] # NoHandler

list_tools == reg_tools

\* `if param.enum:` is false for None and for an empty list
Truthy(enum) == enum.given /\ enum.values # <<>>

\* the names of a parameter list, in order, of the parameters with
\* required = True (the list `required` of both exports)
RECURSIVE RequiredNames(_)
RequiredNames(params) ==
    IF params = <<>> THEN <<>>
    ELSE (IF Head(params).required THEN <<Head(params).name>> ELSE <<>>)
             \o RequiredNames(Tail(params))

\* the parameter that a dict built by the loop keeps under a key: the last
\* one of that name
LastNamed(params, n) ==
    params[CHOOSE k \in DOMAIN params :
              /\ params[k].name = n
              /\ \A j \in DOMAIN params : j > k => params[j].name # n]

\* ToolDefinition.to_openai_schema; the result is a plain dict
to_openai_schema(tool_def) ==
    LET param_schema(param) ==
            IF Truthy(param.enum)
            THEN [type |-> param.type, description |-> param.description,
                  enum |-> param.enum.values]
            ELSE [type |-> param.type, description |-> param.description]
        properties ==
            [n \in { tool_def.parameters[k].name : k \in DOMAIN tool_def.parameters } |->
                param_schema(LastNamed(tool_def.parameters, n))]
    IN  [kind |-> "dict", type |-> "function",
         function |-> [name |-> tool_def.name,
                       description |-> tool_def.description,
                       parameters |-> [type |-> "object",
                                       properties |-> properties,
                                       required |-> RequiredNames(tool_def.parameters)]]]

\* variant: the Anthropic export leaves the enum out
to_anthropic_schema_NoEnum(tool_def) ==
    LET param_schema(param) ==
            [type |-> param.type, description |-> param.description]
        parameters ==
            [n \in { tool_def.parameters[k].name : k \in DOMAIN tool_def.parameters } |->
                param_schema(LastNamed(tool_def.parameters, n))]
    IN  [kind |-> "dict", name |-> tool_def.name,
         description |-> tool_def.description,
         input_schema |-> [type |-> "object",
                           properties |-> parameters,
                           required |-> RequiredNames(tool_def.parameters)]]

\* ToolDefinition.to_anthropic_schema
to_anthropic_schema(tool_def) ==
    LET param_schema(param) ==
            IF Truthy(param.enum)
            THEN [type |-> param.type, description |-> param.description,
                  enum |-> param.enum.values]
            ELSE [type |-> param.type, description |-> param.description]
        parameters ==
            [n \in { tool_def.parameters[k].name : k \in DOMAIN tool_def.parameters } |->
                param_schema(LastNamed(tool_def.parameters, n))]
    IN  [kind |-> "dict", name |-> tool_def.name,
         description |-> tool_def.description,
         input_schema |-> [type |-> "object",
                           properties |-> parameters,
                           required |-> RequiredNames(tool_def.parameters)]]

get_openai_schemas == [k \in DOMAIN list_tools |-> to_openai_schema(list_tools[k])]

get_anthropic_schemas == [k \in DOMAIN list_tools |-> to_anthropic_schema(list_tools[k])]

add_tool(tool_def) ==
    /\ pc = "startup"
    /\ UNCHANGED auxVars
    /\ reg_tools' = DictSet(reg_tools, tool_def)
    /\ reg_categories' = reg_categories \cup {tool_def.category}
    /\ UNCHANGED <<reg_handlers, settings, pc>>
    /\ UNCHANGED reqVars

\* variant: a handler is bound whether or not the name has a definition
add_handler_Unchecked(tool_name, handler) ==
    /\ pc = "startup"
    /\ UNCHANGED auxVars
    /\ reg_handlers' = [reg_handlers EXCEPT ![tool_name] = handler]
    /\ UNCHANGED <<pc, failure>>
    /\ UNCHANGED <<reg_tools, reg_categories, settings>>
    /\ UNCHANGED <<request, messages, steps, response, tool_results, idx,
                   final_message, completions, dispatched>>

\* variant: a handler may also be bound between two requests
add_handler_WhileServing(tool_name, handler) ==
    /\ pc \in {"startup", "idle"}
    /\ UNCHANGED auxVars
    /\ IF ~HasTool(reg_tools, tool_name)
       THEN /\ pc' = "import_error"
            /\ failure' = "ValueError"
            /\ UNCHANGED reg_handlers
       ELSE /\ reg_handlers' = [reg_handlers EXCEPT ![tool_name] = handler]
            /\ UNCHANGED <<pc, failure>>
    /\ UNCHANGED <<reg_tools, reg_categories, settings>>
    /\ UNCHANGED <<request, messages, steps, response, tool_results, idx,
                   final_message, completions, dispatched>>

\* the ValueError of an unregistered name leaves the importing module
add_handler(tool_name, handler) ==
    /\ pc = "startup"
    /\ UNCHANGED auxVars
    /\ IF ~HasTool(reg_tools, tool_name)
       THEN /\ pc' = "import_error"
            /\ failure' = "ValueError"
            /\ UNCHANGED reg_handlers
       ELSE /\ reg_handlers' = [reg_handlers EXCEPT ![tool_name] = handler]
            /\ UNCHANGED <<pc, failure>>
    /\ UNCHANGED <<reg_tools, reg_categories, settings>>
    /\ UNCHANGED <<request, messages, steps, response, tool_results, idx,
                   final_message, completions, dispatched>>

register_tool(tool_def, handler) ==
    /\ pc = "startup"
    /\ UNCHANGED auxVars
    /\ reg_tools' = DictSet(reg_tools, tool_def)
    /\ reg_categories' = reg_categories \cup {tool_def.category}
    /\ reg_handlers' = [reg_handlers EXCEPT ![tool_def.name] = handler]
    /\ UNCHANGED <<settings, pc>>
    /\ UNCHANGED reqVars

(***************************************************************************)
(* LLMProvider (agent/provider.py).                                        *)
(***************************************************************************)
Backends == {"openai", "anthropic", "azure"}

\* acomplete tries the clients in this order; no client means mock mode
ActiveBackend(conf) ==
    IF "openai" \in conf THEN "openai"
    ELSE IF "anthropic" \in conf THEN "anthropic"
    ELSE IF "azure" \in conf THEN "azure"
    ELSE "mock"

ToolFunction(name) == [kind |-> "ToolFunction", name |-> name]

NoMessage ==
    [role |-> None, content |-> <<>>, has_tool_calls |-> FALSE, tool_calls |-> <<>>]

AssistantMessage(content, calls) ==
    [role |-> "assistant", content |-> content,
     has_tool_calls |-> calls # <<>>, tool_calls |-> calls]

ToolCall(id, name, arguments) == [id |-> id, name |-> name, arguments |-> arguments]

\* what the backend does with one request: a transport or protocol failure,
\* or a message with text and tool calls
BackendCalls ==
    UNION { [1..n -> [name : CallNames, arguments : BackendArgs]] : n \in 0..MaxCalls }

BackendOutcomes ==
    [fail : {TRUE}, content : {<<>>}, calls : {<<>>}, rev : {FALSE}]
    \cup [fail : {FALSE}, content : {<<>>, <<"text">>}, calls : {<<>>}, rev : {FALSE}]
    \cup [fail : {FALSE}, content : {<<>>}, calls : BackendCalls \ {<<>>}, rev : {FALSE}]
    \cup [fail : {FALSE}, content : {<<>>},
          calls : {c \in BackendCalls : Len(c) >= 2}, rev : {TRUE}]

\* the completion that follows the tool phase is asked without tools; the
\* backend may still answer with a tool call
FollowUpOutcomes ==
    { o \in BackendOutcomes : /\ Len(o.calls) <= 1
                              /\ o.rev = FALSE
                              /\ o.content = <<>> => (o.fail \/ o.calls # <<>>)
                              /\ \A k \in DOMAIN o.calls : o.calls[k].arguments = "json" }

NoOutcome == [fail |-> FALSE, content |-> <<>>, calls |-> <<>>, rev |-> FALSE]

\* identifiers the chat-completions backend supplies: distinct within one
\* response, unrelated to the position
BackendId(k, n, rev) == "bk_" \o ToString(IF rev THEN n + 1 - k ELSE k)

\* to_dict(tool) and _convert_to_anthropic_tools read tool.name: a dict
\* schema has no such attribute (AttributeError, outside the try block)
ConversionRaises(tools) == \E k \in DOMAIN tools : tools[k].kind = "dict"

\* variant: the diagnostic message asks for a tool
ErrorMessage_WithCall ==
    AssistantMessage(<<"Error: ", "backend failure">>,
                     <<ToolCall("bk_1", "web.navigate", "map")>>)

\* except Exception as e: the message {"role": "assistant", "content": f"Error: {e}"}
ErrorMessage == AssistantMessage(<<"Error: ", "backend failure">>, <<>>)

SystemMessage(system) == [role |-> "system", content |-> <<system>>, tool_call_id |-> None]

\* the outcome of a backend path: the message it returns, the message list
\* and system slot it sent, and the tool calls the backend answered with
Completed(message, sent, system_slot, received) ==
    [raised |-> FALSE, message |-> message, sent |-> sent, system_slot |-> system_slot,
     received |-> received]

Raised(sent, system_slot) ==
    [raised |-> TRUE, message |-> NoMessage, sent |-> sent, system_slot |-> system_slot,
     received |-> <<>>]

\* json.loads(tool_call.function.arguments), JSONDecodeError caught: the
\* decoded mapping, or {"error": "Failed to parse arguments"}
DecodeArguments(payload) == IF payload = "json" THEN "map" ELSE "marker"

\* the tool calls of a chat-completions answer, with the ids the backend
\* gave them
BackendToolCalls(env) ==
    [k \in DOMAIN env.calls |->
        [id |-> BackendId(k, Len(env.calls), env.rev), name |-> env.calls[k].name,
         arguments |-> env.calls[k].arguments]]

\* variant: a call whose arguments cannot be decoded is left out
complete_with_openai_DropsUndecodable(msgs, tools, system, env) ==
    LET openai_messages == IF system # None THEN <<SystemMessage(system)>> \o msgs ELSE msgs
        received == SelectSeq(BackendToolCalls(env), LAMBDA c : c.arguments = "json")
        tool_calls == [k \in DOMAIN received |->
            ToolCall(received[k].id, received[k].name,
                     DecodeArguments(received[k].arguments))]
    IN  IF tools # <<>> /\ ConversionRaises(tools) THEN Raised(openai_messages, None)
        ELSE IF env.fail THEN Completed(ErrorMessage, openai_messages, None, <<>>)
        ELSE Completed(AssistantMessage(env.content, tool_calls), openai_messages, None,
                       BackendToolCalls(env))

\* variant: the system message is put after the history
complete_with_openai_SystemLast(msgs, tools, system, env) ==
    LET openai_messages == IF system # None THEN msgs \o <<SystemMessage(system)>> ELSE msgs
        received == BackendToolCalls(env)
        tool_calls == [k \in DOMAIN received |->
            ToolCall(received[k].id, received[k].name,
                     DecodeArguments(received[k].arguments))]
    IN  IF tools # <<>> /\ ConversionRaises(tools) THEN Raised(openai_messages, None)
        ELSE IF env.fail THEN Completed(ErrorMessage, openai_messages, None, <<>>)
        ELSE Completed(AssistantMessage(env.content, tool_calls), openai_messages, None,
                       received)

\* _complete_with_openai and _complete_with_azure_openai (same code)
complete_with_openai(msgs, tools, system, env) ==
    LET openai_messages == IF system # None THEN <<SystemMessage(system)>> \o msgs ELSE msgs
        received == BackendToolCalls(env)
        tool_calls == [k \in DOMAIN received |->
            ToolCall(received[k].id, received[k].name,
                     DecodeArguments(received[k].arguments))]
    IN  IF tools # <<>> /\ ConversionRaises(tools) THEN Raised(openai_messages, None)
        ELSE IF env.fail THEN Completed(ErrorMessage, openai_messages, None, <<>>)
        ELSE Completed(AssistantMessage(env.content, tool_calls), openai_messages, None,
                       received)

\* response.tool_use: the backend gives a name and an input mapping, no id
AnthropicToolUse(env) ==
    [k \in DOMAIN env.calls |->
        [id |-> None, name |-> env.calls[k].name, arguments |-> env.calls[k].arguments]]

\* variant: every synthesized identifier is call_0
complete_with_anthropic_ConstantId(msgs, tools, system, env) ==
    LET anthropic_messages == SelectSeq(msgs, LAMBDA m : m.role \in {"user", "assistant"})
        received == AnthropicToolUse(env)
        tool_calls == [k \in DOMAIN received |->
            ToolCall("call_" \o ToString(0), received[k].name, "map")]
    IN  IF tools # <<>> /\ ConversionRaises(tools) THEN Raised(anthropic_messages, system)
        ELSE IF env.fail THEN Completed(ErrorMessage, anthropic_messages, system, <<>>)
        ELSE Completed(AssistantMessage(env.content, tool_calls), anthropic_messages, system,
                       received)

\* _complete_with_anthropic: only user and assistant messages are sent;
\* tool_use.input is a mapping already
complete_with_anthropic(msgs, tools, system, env) ==
    LET anthropic_messages == SelectSeq(msgs, LAMBDA m : m.role \in {"user", "assistant"})
        received == AnthropicToolUse(env)
        tool_calls == [k \in DOMAIN received |->
            ToolCall("call_" \o ToString(k - 1), received[k].name, "map")]
    IN  IF tools # <<>> /\ ConversionRaises(tools) THEN Raised(anthropic_messages, system)
        ELSE IF env.fail THEN Completed(ErrorMessage, anthropic_messages, system, <<>>)
        ELSE Completed(AssistantMessage(env.content, tool_calls), anthropic_messages, system,
                       received)

\* variant: the most recent message is echoed, whatever its role
LastUserMessage_AnyRole(msgs) ==
    IF msgs = <<>> THEN <<"No user message found">> ELSE msgs[Len(msgs)].content

RECURSIVE LastUserMessage(_)
LastUserMessage(msgs) ==
    IF msgs = <<>> THEN <<"No user message found">>
    ELSE IF msgs[Len(msgs)].role = "user" THEN msgs[Len(msgs)].content
    ELSE LastUserMessage(SubSeq(msgs, 1, Len(msgs) - 1))

MockMarker == "[MOCK RESPONSE] I received your message: '"

\* variant: the fabricated call names the last tool of the list
mock_response_LastTool(msgs, tools) ==
    LET content == <<MockMarker>> \o LastUserMessage(msgs)
                   \o <<"'. Please configure an LLM provider API key to get real responses.">>
    IN  IF tools = <<>> THEN Completed(AssistantMessage(content, <<>>), <<>>, None, <<>>)
        ELSE IF tools[Len(tools)].kind = "dict" THEN Raised(<<>>, None)
        ELSE Completed(AssistantMessage(content,
                 <<ToolCall("mock_tool_call_1", tools[Len(tools)].name, "empty")>>),
                 <<>>, None, <<>>)

\* _mock_response: the acknowledgment, and a call of tools[0] when tools
\* were supplied; first_tool.name is read as an attribute
mock_response(msgs, tools) ==
    LET content == <<MockMarker>> \o LastUserMessage(msgs)
                   \o <<"'. Please configure an LLM provider API key to get real responses.">>
    IN  IF tools = <<>> THEN Completed(AssistantMessage(content, <<>>), <<>>, None, <<>>)
        ELSE IF tools[1].kind = "dict" THEN Raised(<<>>, None)
        ELSE Completed(AssistantMessage(content,
                 <<ToolCall("mock_tool_call_1", tools[1].name, "empty")>>), <<>>, None, <<>>)

\* _complete_with_azure_openai: the code of _complete_with_openai, run on
\* the Azure client
complete_with_azure_openai(msgs, tools, system, env) ==
    complete_with_openai(msgs, tools, system, env)

\* the outcome of a completion together with the client that produced it
Served(client, r) ==
    [client |-> client, raised |-> r.raised, message |-> r.message,
     sent |-> r.sent, system_slot |-> r.system_slot, received |-> r.received]

\* variant: the Azure client is asked before the others
acomplete_AzureFirst(conf, msgs, tools, system, env) ==
    IF "azure" \in conf
    THEN Served("azure", complete_with_azure_openai(msgs, tools, system, env))
    ELSE IF "openai" \in conf
    THEN Served("openai", complete_with_openai(msgs, tools, system, env))
    ELSE IF "anthropic" \in conf
    THEN Served("anthropic", complete_with_anthropic(msgs, tools, system, env))
    ELSE Served("mock", mock_response(msgs, tools))

\* LLMProvider.acomplete: a client exists for every configured key
\* (__init__), and the first existing client in this order serves the call
acomplete(conf, msgs, tools, system, env) ==
    IF "openai" \in conf
    THEN Served("openai", complete_with_openai(msgs, tools, system, env))
    ELSE IF "anthropic" \in conf
    THEN Served("anthropic", complete_with_anthropic(msgs, tools, system, env))
    ELSE IF "azure" \in conf
    THEN Served("azure", complete_with_azure_openai(msgs, tools, system, env))
    ELSE Served("mock", mock_response(msgs, tools))

(***************************************************************************)
(* Tools (agent/tools.py).                                                 *)
(***************************************************************************)
TOOL_DEFINITIONS ==
    << ToolFunction("web.navigate"), ToolFunction("ui.click"), ToolFunction("ui.type"),
       ToolFunction("web.search"), ToolFunction("web.extract"), ToolFunction("ui.screenshot") >>

\* keys of tool_map in Tools.call
tool_map ==
    {"web.navigate", "ui.click", "ui.type", "web.search", "web.extract", "ui.screenshot"}

\* methods whose signature has a parameter without default
NeedsArguments == tool_map \ {"ui.screenshot"}

\* result dictionaries; a key the dictionary lacks is Absent
NoResult ==
    [status |-> Absent, data |-> Absent, success |-> Absent, result |-> Absent, error |-> Absent]

HandleSuccess(v) == [NoResult EXCEPT !.status = "success", !.data = v]
HandleError(e) == [NoResult EXCEPT !.status = "error", !.error = e]
CallSuccess(v) == [NoResult EXCEPT !.success = "True", !.result = v]
CallFailure(e) == [NoResult EXCEPT !.success = "False", !.error = e]

\* outcome of running a handler or a tool method: a returned value or "raise"
Outcomes == Values \cup {"raise"}

\* method(**kwargs): a missing or an unexpected keyword is a TypeError
MethodOutcome(name, arguments, out) ==
    IF arguments = "marker" THEN "raise"
    ELSE IF arguments = "empty" /\ name \in NeedsArguments THEN "raise"
    ELSE out

\* variant: an unknown name is reported like a failed method
tools_call_UnknownReturns(name, arguments, out) ==
    IF name \notin tool_map \/ MethodOutcome(name, arguments, out) = "raise"
    THEN [raised |-> FALSE, error |-> "", result |-> CallFailure("method failed")]
    ELSE [raised |-> FALSE, error |-> "",
          result |-> CallSuccess(MethodOutcome(name, arguments, out))]

\* variant: the exception of a tool method leaves Tools.call
tools_call_Propagates(name, arguments, out) ==
    IF name \notin tool_map
    THEN [raised |-> TRUE, error |-> "Unknown tool: " \o name, result |-> NoResult]
    ELSE IF MethodOutcome(name, arguments, out) = "raise"
    THEN [raised |-> TRUE, error |-> "method failed", result |-> NoResult]
    ELSE [raised |-> FALSE, error |-> "",
          result |-> CallSuccess(MethodOutcome(name, arguments, out))]

\* Tools.call: [raised, result]
tools_call(name, arguments, out) ==
    IF name \notin tool_map
    THEN [raised |-> TRUE, error |-> "Unknown tool: " \o name, result |-> NoResult]
    ELSE IF MethodOutcome(name, arguments, out) = "raise"
    THEN [raised |-> FALSE, error |-> "", result |-> CallFailure("method failed")]
    ELSE [raised |-> FALSE, error |-> "",
          result |-> CallSuccess(MethodOutcome(name, arguments, out))]

\* inspect.iscoroutinefunction(handler)
iscoroutinefunction(handler) == handler = "h_async"

\* variant: a synchronous handler is called on the event loop
ExecMode_Inline(handler) ==
    IF iscoroutinefunction(handler) THEN "await" ELSE "inline"

\* how handle runs the handler: `await handler(args, context)`, or
\* loop.run_in_executor(None, lambda: handler(args, context))
ExecMode(handler) ==
    IF iscoroutinefunction(handler) THEN "await" ELSE "executor"

\* `if context is None: context = {}`; the handler gets that object
HandlerContext(context) == IF context = None THEN "{}" ELSE context

\* variant: the handler's return value is not put into the result
handle_NoData(tool_name, arguments, context, out) ==
    IF out = "raise"
    THEN [raised |-> FALSE, error |-> "", invoked |-> TRUE, context |-> HandlerContext(context),
          result |-> HandleError("handler failed")]
    ELSE [raised |-> FALSE, error |-> "", invoked |-> TRUE, context |-> HandlerContext(context),
          result |-> HandleSuccess(None)]

\* variant: a name that cannot be handled gets an error result
handle_ReturnsNotFound(tool_name, arguments, context, out) ==
    IF ~can_handle(tool_name)
    THEN [raised |-> FALSE, error |-> "", invoked |-> FALSE, context |-> None,
          result |-> HandleError("Tool '" \o tool_name \o "' cannot be handled")]
    ELSE IF out = "raise"
    THEN [raised |-> FALSE, error |-> "", invoked |-> TRUE, context |-> HandlerContext(context),
          result |-> HandleError("handler failed")]
    ELSE [raised |-> FALSE, error |-> "", invoked |-> TRUE, context |-> HandlerContext(context),
          result |-> HandleSuccess(out)]

\* variant: the exception of the handler leaves handle
handle_Propagates(tool_name, arguments, context, out) ==
    IF ~can_handle(tool_name)
    THEN [raised |-> TRUE, error |-> "Tool '" \o tool_name \o "' cannot be handled",
          invoked |-> FALSE, context |-> None, result |-> NoResult]
    ELSE IF out = "raise"
    THEN [raised |-> TRUE, error |-> "handler failed", invoked |-> TRUE, context |-> HandlerContext(context),
          result |-> NoResult]
    ELSE [raised |-> FALSE, error |-> "", invoked |-> TRUE, context |-> HandlerContext(context),
          result |-> HandleSuccess(out)]

\* ToolsRegistry.handle: [raised, error, invoked, context, result], context
\* being what the handler is called with.  A name that
\* cannot be handled raises ValueError before the handler is looked up;
\* an exception of the handler becomes an error result
handle(tool_name, arguments, context, out) ==
    IF ~can_handle(tool_name)
    THEN [raised |-> TRUE, error |-> "Tool '" \o tool_name \o "' cannot be handled",
          invoked |-> FALSE, context |-> None, result |-> NoResult]
    ELSE IF out = "raise"
    THEN [raised |-> FALSE, error |-> "", invoked |-> TRUE, context |-> HandlerContext(context),
          result |-> HandleError("handler failed")]
    ELSE [raised |-> FALSE, error |-> "", invoked |-> TRUE, context |-> HandlerContext(context),
          result |-> HandleSuccess(out)]

\* json.dumps of a result dictionary: the keys present, in insertion order
JsonDumps(r) ==
    LET Pair(k, v) == IF v = Absent THEN <<>> ELSE <<k, ":", v, ",">>
    IN  <<"{">> \o Pair("status", r.status) \o Pair("success", r.success)
        \o Pair("data", r.data) \o Pair("result", r.result) \o Pair("error", r.error)
        \o <<"}">>

(***************************************************************************)
(* The chat handler (main.py).                                             *)
(***************************************************************************)
NoCall == [id |-> None, name |-> None, arguments |-> None]
NoRequest == [messages |-> <<>>, user_id |-> None, valid |-> FALSE]
Requests == [messages : ReqHistories, user_id : UserIds, valid : BOOLEAN]

\* an entry of `steps`; the input step holds the list `messages` itself
Step(type, tool_call, result, error, message) ==
    [type |-> type, tool_call |-> tool_call, result |-> result, error |-> error,
     message |-> message, messages |-> IF type = "input" THEN "ref:messages" ELSE None]

StepKinds(ss) == [k \in DOMAIN ss |-> ss[k].type]

\* Message(**response)
Message(r) ==
    [role |-> r.role, content |-> r.content, has_tool_calls |-> r.has_tool_calls,
     tool_calls |-> r.tool_calls, tool_call_id |-> None]

\* variant: the message is linked by the tool name
ToolMessage_NameAsId(tr) ==
    [role |-> "tool", content |-> JsonDumps(tr.result), tool_call_id |-> tr.name]

ToolMessage(tr) ==
    [role |-> "tool", content |-> JsonDumps(tr.result), tool_call_id |-> tr.tool_call_id]

Completion(conf, msgs, tools, tools_given, r) ==
    [backend |-> r.client, raised |-> r.raised, messages |-> msgs, tools |-> tools,
     tools_given |-> tools_given, system |-> WIND_SYSTEM_PROMPT,
     sent |-> r.sent, system_slot |-> r.system_slot, received |-> r.received]

\* variant: the user id of the request is passed as it is
Context_NoDefault(req) == req.user_id

\* context={"user_id": request.user_id or "default_user"}
Context(req) == IF req.user_id \in {None, ""} THEN "default_user" ELSE req.user_id

\* variant: the tool phase is entered for every response
HasToolCalls_Always(r) == TRUE

\* main.py 176: if "tool_calls" in response and response["tool_calls"]
HasToolCalls(r) == r.has_tool_calls /\ r.tool_calls # <<>>

Failed(r) == r.raised \/ r.result.status = "error" \/ r.result.success = "False"

\* variant: a failed call ends the loop
LoopAdvance_Break(i, r) == IF Failed(r) THEN Len(response.tool_calls) + 1 ELSE i + 1

\* variant: a failed call is tried again
LoopAdvance_Retry(i, r) == IF Failed(r) THEN i ELSE i + 1

\* main.py 182: the for statement moves to the next call whether the body
\* ended in the try part or in the except part
LoopAdvance(i, r) == i + 1

\* variant: the follow-up call offers the built-in tools again
FollowUpTools_Offered == TOOL_DEFINITIONS

\* main.py 248-251: the follow-up call passes no `tools` argument
FollowUpTools == <<>>

InitRequest ==
    /\ request = NoRequest
    /\ messages = <<>>
    /\ steps = <<>>
    /\ response = NoMessage
    /\ tool_results = <<>>
    /\ idx = 0
    /\ final_message = Message(NoMessage)
    /\ failure = None
    /\ completions = <<>>
    /\ dispatched = <<>>

\* the local variables of one chat coroutine
Frame(at, req, msgs, ss, resp, results, i, final, exc, log, calls) ==
    [pc |-> at, request |-> req, messages |-> msgs, steps |-> ss, response |-> resp,
     tool_results |-> results, idx |-> i, final_message |-> final, failure |-> exc,
     completions |-> log, dispatched |-> calls]

\* no second coroutine
NoFrame ==
    Frame(None, NoRequest, <<>>, <<>>, NoMessage, <<>>, 0, Message(NoMessage), None,
          <<>>, <<>>)

\* a coroutine that waits for its request
IdleFrame ==
    Frame("idle", NoRequest, <<>>, <<>>, NoMessage, <<>>, 0, Message(NoMessage), None,
          <<>>, <<>>)

\* no direct call of the dispatcher has been made
NoProbe ==
    [name |-> None, context |-> None, handler |-> NoHandler, mode |-> None,
     out |-> None, raised |-> FALSE, error |-> "", invoked |-> FALSE,
     result |-> NoResult]

\* no listing has been made
NoListing ==
    [raised |-> FALSE, emails |-> <<>>, total |-> 0, page |-> 0, page_size |-> 0,
     total_pages |-> 0, folder |-> None, unread_only |-> FALSE]

\* users of the mail extension
MailUsers == {"u1", "u2"}

\* EmailFolder.get_or_create_default_folders: the names, in the order of
\* the loop, and as a set
default_folder_list == <<"Inbox", "Sent", "Drafts", "Trash", "Spam">>
default_folders == {"Inbox", "Sent", "Drafts", "Trash", "Spam"}

\* coroutines that run a mail operation at the same time
Coroutines == {1, 2}

\* no send_email call has been made
NoSend == [raised |-> FALSE, user_id |-> None, email_id |-> None]

\* a coroutine that runs no mail operation
NoSession == [at |-> "idle", user_id |-> None, k |-> 0, pending |-> {}]

\* the tables before anything was done: folders counts the system rows of
\* email_folders per user and name, emails are the rows of email_messages
\* made by compose_email, inbox the received messages of the listing user
NoMail ==
    [folders |-> [u \in MailUsers |-> [n \in default_folders |-> 0]],
     inbox |-> <<>>, listing |-> NoListing,
     emails |-> <<>>, send |-> NoSend,
     sessions |-> [c \in Coroutines |-> NoSession]]

Init ==
    /\ settings \in SUBSET Backends
    /\ reg_tools = <<>>
    /\ reg_handlers = [n \in CatalogNames |-> NoHandler]
    /\ reg_categories = {"system"}
    /\ pc = "startup"
    /\ InitRequest
    /\ other = NoFrame
    /\ probe = NoProbe
    /\ mail = NoMail

\* the imports of main.py are done: the application serves requests
StartServing ==
    /\ pc = "startup"
    /\ UNCHANGED auxVars
    /\ pc' = "idle"
    /\ UNCHANGED <<settings, regVars>>
    /\ UNCHANGED reqVars

\* main.py 134-160: validation of the body, then the code up to the first await
Receive(req) ==
    /\ pc = "idle"
    /\ UNCHANGED auxVars
    /\ request' = req
    /\ IF ~req.valid
       THEN /\ pc' = "rejected"
            /\ UNCHANGED <<messages, steps>>
       ELSE /\ pc' = "first"
            /\ messages' = req.messages
            /\ steps' = <<Step("input", NoCall, NoResult, "", NoMessage)>>
    /\ UNCHANGED <<settings, regVars, response, tool_results, idx, final_message,
                   failure, completions, dispatched>>

\* main.py 160-176 and 265-269
FirstCompletion(env) ==
    /\ pc = "first"
    /\ UNCHANGED auxVars
    /\ LET tools == TOOL_DEFINITIONS \o get_openai_schemas
           r == acomplete(settings, messages, tools, WIND_SYSTEM_PROMPT, env)
       IN  /\ completions' = Append(completions, Completion(settings, messages, tools, TRUE, r))
           /\ IF r.raised
              THEN /\ pc' = "failed"
                   /\ failure' = "provider"
                   /\ UNCHANGED <<steps, response, final_message>>
              ELSE /\ response' = r.message
                   /\ steps' = Append(steps, Step("llm_response", NoCall, NoResult, "", r.message))
                   /\ failure' = None
                   /\ IF HasToolCalls(r.message)
                      THEN /\ pc' = "enter_tools"
                           /\ UNCHANGED final_message
                      ELSE /\ pc' = "done"
                           /\ final_message' = Message(r.message)
    /\ tool_results' = <<>>
    /\ UNCHANGED <<settings, regVars, request, messages, idx, dispatched>>

\* main.py 181, Tools.__aenter__: starting the browser may fail
EnterTools(ok) ==
    /\ pc = "enter_tools"
    /\ UNCHANGED auxVars
    /\ IF ok
       THEN /\ pc' = "tools"
            /\ idx' = 1
            /\ UNCHANGED failure
       ELSE /\ pc' = "failed"
            /\ failure' = "tools_setup"
            /\ UNCHANGED idx
    /\ UNCHANGED <<settings, regVars, request, messages, steps, response, tool_results,
                   final_message, completions, dispatched>>

\* how the call the loop is at is run: by the registry's handler, or by
\* `await tools.call(...)`
CallMode(calls, i) ==
    IF can_handle(calls[i].name) THEN ExecMode(reg_handlers[calls[i].name]) ELSE "await"

\* main.py 182-201: the loop body up to `await ...handle(...)` or
\* `await tools.call(...)`; the handler or the tool method is running
BeginCall ==
    /\ pc = "tools"
    /\ UNCHANGED auxVars
    /\ idx <= Len(response.tool_calls)
    /\ pc' = "in_call"
    /\ UNCHANGED <<settings, regVars>>
    /\ UNCHANGED reqVars

\* main.py 182-236: the awaited call ends, the rest of the iteration of
\* the loop over response["tool_calls"]
DispatchCall(out) ==
    /\ pc = "in_call"
    /\ UNCHANGED auxVars
    /\ pc' = "tools"
    /\ LET tool_call == response.tool_calls[idx]
           tool_name == tool_call.name
           tool_args == tool_call.arguments
           catalog == can_handle(tool_name)
           context == Context(request)
           r == IF catalog THEN handle(tool_name, tool_args, context, out)
                ELSE tools_call(tool_name, tool_args, out)
           result == IF r.raised THEN CallFailure(r.error) ELSE r.result
       IN  /\ tool_results' = Append(tool_results,
                  [tool_call_id |-> tool_call.id, name |-> tool_name,
                   arguments |-> tool_args, result |-> result])
           /\ steps' = Append(steps,
                  IF r.raised
                  THEN Step("tool_error", tool_call, NoResult, r.error, NoMessage)
                  ELSE Step("tool_call", tool_call, r.result, "", NoMessage))
           /\ dispatched' = Append(dispatched,
                  [index |-> idx, name |-> tool_name,
                   route |-> IF catalog THEN "catalog" ELSE "system",
                   handler |-> IF catalog THEN reg_handlers[tool_name] ELSE NoHandler,
                   mode |-> IF catalog THEN ExecMode(reg_handlers[tool_name]) ELSE None,
                   user_id |-> IF catalog THEN r.context ELSE None,
                   invoked |-> catalog \/ tool_name \in tool_map,
                   outcome |-> IF catalog THEN out
                               ELSE IF tool_name \in tool_map
                               THEN MethodOutcome(tool_name, tool_args, out)
                               ELSE None])
           /\ idx' = LoopAdvance(idx, r)
    /\ UNCHANGED <<settings, regVars, request, messages, response, final_message,
                   failure, completions>>

\* variant: the handler returns after the tool phase
AppendToolMessages_ReturnEarly ==
    /\ pc = "tools"
    /\ UNCHANGED auxVars
    /\ idx > Len(response.tool_calls)
    /\ messages' = messages \o [k \in DOMAIN tool_results |-> ToolMessage(tool_results[k])]
    /\ pc' = "done"
    /\ final_message' = Message(response)
    /\ UNCHANGED <<settings, regVars, request, steps, response, tool_results, idx,
                   failure, completions, dispatched>>

\* variant: the results are appended last first
AppendToolMessages_Reversed ==
    /\ pc = "tools"
    /\ UNCHANGED auxVars
    /\ idx > Len(response.tool_calls)
    /\ messages' = messages \o [k \in DOMAIN tool_results |->
                        ToolMessage(tool_results[Len(tool_results) + 1 - k])]
    /\ pc' = "second"
    /\ UNCHANGED <<settings, regVars, request, steps, response, tool_results, idx,
                   final_message, failure, completions, dispatched>>

\* variant: a failed call gets no tool message
AppendToolMessages_SkipFailed ==
    /\ pc = "tools"
    /\ UNCHANGED auxVars
    /\ idx > Len(response.tool_calls)
    /\ messages' = messages \o
          [k \in DOMAIN SelectSeq(tool_results, LAMBDA tr : tr.result.success # "False") |->
              ToolMessage(SelectSeq(tool_results, LAMBDA tr : tr.result.success # "False")[k])]
    /\ pc' = "second"
    /\ UNCHANGED <<settings, regVars, request, steps, response, tool_results, idx,
                   final_message, failure, completions, dispatched>>

\* variant: the second completion does not wait for the last call
AppendToolMessages_BeforeLast ==
    /\ pc = "tools"
    /\ UNCHANGED auxVars
    /\ idx >= Len(response.tool_calls)
    /\ messages' = messages \o [k \in DOMAIN tool_results |-> ToolMessage(tool_results[k])]
    /\ pc' = "second"
    /\ UNCHANGED <<settings, regVars, request, steps, response, tool_results, idx,
                   final_message, failure, completions, dispatched>>

\* variant: the assistant message of the first completion is appended too
AppendToolMessages_WithAssistant ==
    /\ pc = "tools"
    /\ UNCHANGED auxVars
    /\ idx > Len(response.tool_calls)
    /\ messages' = messages
          \o <<[role |-> "assistant", content |-> response.content, tool_call_id |-> None]>>
          \o [k \in DOMAIN tool_results |-> ToolMessage(tool_results[k])]
    /\ pc' = "second"
    /\ UNCHANGED <<settings, regVars, request, steps, response, tool_results, idx,
                   final_message, failure, completions, dispatched>>

\* main.py 238-245: the loop is over, the results become tool messages
AppendToolMessages ==
    /\ pc = "tools"
    /\ UNCHANGED auxVars
    /\ idx > Len(response.tool_calls)
    /\ messages' = messages \o [k \in DOMAIN tool_results |-> ToolMessage(tool_results[k])]
    /\ pc' = "second"
    /\ UNCHANGED <<settings, regVars, request, steps, response, tool_results, idx,
                   final_message, failure, completions, dispatched>>

\* main.py 247-263
SecondCompletion(env) ==
    /\ pc = "second"
    /\ UNCHANGED auxVars
    /\ LET r == acomplete(settings, messages, FollowUpTools, WIND_SYSTEM_PROMPT, env)
       IN  /\ completions' = Append(completions,
                  Completion(settings, messages, FollowUpTools, FollowUpTools # <<>>, r))
           /\ IF r.raised
              THEN /\ pc' = "failed"
                   /\ failure' = "provider"
                   /\ UNCHANGED <<steps, final_message>>
              ELSE /\ pc' = "done"
                   /\ steps' = Append(steps, Step("final_response", NoCall, NoResult, "", r.message))
                   /\ final_message' = Message(r.message)
                   /\ UNCHANGED failure
    /\ UNCHANGED <<settings, regVars, request, messages, response, tool_results, idx,
                   dispatched>>

\* the response or the error has been sent; the next request arrives
NextRequest ==
    /\ pc \in {"done", "failed", "rejected"}
    /\ UNCHANGED auxVars
    /\ pc' = "idle"
    /\ request' = NoRequest
    /\ messages' = <<>>
    /\ steps' = <<>>
    /\ response' = NoMessage
    /\ tool_results' = <<>>
    /\ idx' = 0
    /\ final_message' = Message(NoMessage)
    /\ failure' = None
    /\ completions' = <<>>
    /\ dispatched' = <<>>
    /\ UNCHANGED <<settings, regVars>>

\* the backend is not consulted in mock mode; the input of an Anthropic
\* tool use is a mapping, never an undecoded payload
FirstOutcomes ==
    IF ActiveBackend(settings) = "mock" THEN {NoOutcome}
    ELSE IF ActiveBackend(settings) = "anthropic"
    THEN { o \in BackendOutcomes : \A k \in DOMAIN o.calls : o.calls[k].arguments = "json" }
    ELSE BackendOutcomes
SecondOutcomes == IF ActiveBackend(settings) = "mock" THEN {NoOutcome} ELSE FollowUpOutcomes

Next ==
    \/ \E d \in ToolDefs : add_tool(d)
    \/ \E n \in CatalogNames, h \in Handlers : add_handler(n, h)
    \/ \E d \in ToolDefs, h \in Handlers : register_tool(d, h)
    \/ StartServing
    \/ \E req \in Requests : Receive(req)
    \/ \E env \in FirstOutcomes : FirstCompletion(env)
    \/ \E ok \in BOOLEAN : EnterTools(ok)
    \/ BeginCall
    \/ \E out \in Outcomes : DispatchCall(out)
    \/ AppendToolMessages
    \/ \E env \in SecondOutcomes : SecondCompletion(env)
    \/ NextRequest

Spec == Init /\ [][Next]_vars

(***************************************************************************)
(* The dispatcher called directly, as any holder of the registry may.      *)
(***************************************************************************)
\* contexts a caller passes: none, or a mapping with a user id
Contexts == {None, "u1"}

\* await registry.handle(tool_name, args, context); `context or {}` is what
\* the handler receives
DirectDispatch(tool_name, context, out) ==
    /\ pc = "idle"
    /\ LET r == handle(tool_name, "map", context, out)
           handler == IF tool_name \in DOMAIN reg_handlers
                      THEN reg_handlers[tool_name] ELSE NoHandler
       IN  probe' = [name |-> tool_name,
                     context |-> r.context,
                     handler |-> handler,
                     mode |-> IF r.invoked THEN ExecMode(handler) ELSE None,
                     out |-> IF r.invoked THEN out ELSE None,
                     raised |-> r.raised, error |-> r.error,
                     invoked |-> r.invoked, result |-> r.result]
    /\ UNCHANGED <<settings, regVars, pc, other, mail>>
    /\ UNCHANGED reqVars

RegistryInit == Init /\ settings = {}

RegistryNext ==
    \/ \E d \in ToolDefs : add_tool(d)
    \/ \E n \in CatalogNames, h \in Handlers : add_handler(n, h)
    \/ \E d \in ToolDefs, h \in Handlers : register_tool(d, h)
    \/ StartServing
    \/ \E n \in CallNames, c \in Contexts, out \in Outcomes : DirectDispatch(n, c, out)

RegistrySpec == RegistryInit /\ [][RegistryNext]_vars

(***************************************************************************)
(* The mail extension (apps/email.py): folders, the inbox and its listing, *)
(* drafts and their sending.                                               *)
(***************************************************************************)
\* largest page number and page size a caller asks for
MaxPage == 3
MaxPageSize == 3
\* most emails the users compose
MaxEmails == 3

\* the user whose inbox is listed
ListUser == "u1"

\* folder names a caller asks for: two default ones and an unknown one
FolderNames == {"Inbox", "Sent", "Archive"}

\* the three messages list_emails puts into an empty inbox, newest first
demo_emails ==
    << [id |-> "m1", is_read |-> FALSE], [id |-> "m2", is_read |-> FALSE],
       [id |-> "m3", is_read |-> FALSE] >>

\* query.offset(n).limit(m) on rows in query order
OffsetLimit(rows, n, m) ==
    SubSeq(rows, n + 1, IF n + m < Len(rows) THEN n + m ELSE Len(rows))

\* select(EmailFolder).where(user_id, name) ... first() finds a row
HasFolder(folders, user_id, name) ==
    name \in default_folders /\ folders[user_id][name] > 0

\* EmailFolder.get_or_create_default_folders run without another session
\* in between: a row is added for every default name that has none
get_or_create_default_folders(folders, user_id) ==
    [folders EXCEPT ![user_id] =
        [n \in default_folders |-> IF folders[user_id][n] = 0 THEN 1 ELSE folders[user_id][n]]]

\* list_emails for the listing user; the messages of the model are those
\* of the inbox
list_emails(folder_name, page, page_size, unread_only) ==
    LET folders == IF HasFolder(mail.folders, ListUser, folder_name) THEN mail.folders
                   ELSE get_or_create_default_folders(mail.folders, ListUser)
        found == HasFolder(folders, ListUser, folder_name)
        seeded == IF found /\ folder_name = "Inbox" /\ mail.inbox = <<>>
                  THEN demo_emails ELSE mail.inbox
        rows == IF folder_name = "Inbox" THEN seeded ELSE <<>>
        matching == IF unread_only THEN SelectSeq(rows, LAMBDA e : ~e.is_read) ELSE rows
        total == Len(matching)
        emails == OffsetLimit(matching, (page - 1) * page_size, page_size)
        asked == [NoListing EXCEPT !.page = page, !.page_size = page_size,
                                   !.folder = folder_name, !.unread_only = unread_only]
    IN  mail' =
          [mail EXCEPT
             !.folders = folders,
             !.inbox = seeded,
             !.listing =
               IF ~found THEN asked
               ELSE IF page_size = 0
               THEN [asked EXCEPT !.raised = TRUE]
               ELSE [asked EXCEPT
                       !.emails = [k \in DOMAIN emails |-> emails[k].id],
                       !.total = total,
                       !.total_pages = (total + page_size - 1) \div page_size]]

ListEmails(folder_name, page, page_size, unread_only) ==
    /\ list_emails(folder_name, page, page_size, unread_only)
    /\ UNCHANGED <<settings, regVars, pc, other, probe>>
    /\ UNCHANGED reqVars

\* get_email(user_id, email_id) with mark_as_read: the message is read now
GetEmail(email_id) ==
    /\ \E k \in DOMAIN mail.inbox :
          /\ mail.inbox[k].id = email_id
          /\ mail' = [mail EXCEPT !.inbox[k].is_read = TRUE]
    /\ UNCHANGED <<settings, regVars, pc, other, probe>>
    /\ UNCHANGED reqVars

MailInit == Init /\ settings = {}

MailNext ==
    \/ \E f \in FolderNames, page \in 1..MaxPage, page_size \in 0..MaxPageSize,
          u \in BOOLEAN : ListEmails(f, page, page_size, u)
    \/ \E id \in {"m1", "m2", "m3"} : GetEmail(id)

MailSpec == MailInit /\ [][MailNext]_vars

(***************************************************************************)
(* Composing and sending (apps/email.py), one call at a time.              *)
(***************************************************************************)
\* ids of stored emails (uuid4 in the code: fresh for every row) and an id
\* no row has
EmailId(k) == "e" \o ToString(k)
EmailIds == { EmailId(k) : k \in 1..MaxEmails } \cup {"e0"}

\* compose_email with save_as_draft = True: the Drafts folder is looked
\* up, the default folders are created when it is missing, and a draft
\* row is added
compose_email(user_id) ==
    LET folders == IF HasFolder(mail.folders, user_id, "Drafts") THEN mail.folders
                   ELSE get_or_create_default_folders(mail.folders, user_id)
        email == [id |-> EmailId(Len(mail.emails) + 1), user_id |-> user_id,
                  is_draft |-> TRUE, folder |-> "Drafts", sent_at |-> None]
    IN  mail' = [mail EXCEPT !.folders = folders, !.emails = Append(mail.emails, email)]

ComposeEmail(user_id) ==
    /\ Len(mail.emails) < MaxEmails
    /\ compose_email(user_id)
    /\ UNCHANGED <<settings, regVars, pc, other, probe>>
    /\ UNCHANGED reqVars

\* variant: the query does not ask for the owner
DraftRows_AnyOwner(emails, user_id, email_id) ==
    { k \in DOMAIN emails : emails[k].id = email_id /\ emails[k].is_draft }

\* the rows send_email's query finds: of that user, with that id, a draft
DraftRows(emails, user_id, email_id) ==
    { k \in DOMAIN emails : /\ emails[k].user_id = user_id
                            /\ emails[k].id = email_id
                            /\ emails[k].is_draft }

\* send_email: ValueError("Draft email not found") when the query finds no
\* row, before anything is written; else the row leaves the drafts
send_email(user_id, email_id) ==
    LET found == DraftRows(mail.emails, user_id, email_id)
    IN  IF found = {}
        THEN mail' = [mail EXCEPT !.send = [raised |-> TRUE, user_id |-> user_id,
                                            email_id |-> email_id]]
        ELSE LET k == CHOOSE j \in found : TRUE
                 folders == IF HasFolder(mail.folders, user_id, "Sent") THEN mail.folders
                            ELSE get_or_create_default_folders(mail.folders, user_id)
             IN  mail' = [mail EXCEPT
                            !.folders = folders,
                            !.emails[k] = [@ EXCEPT !.is_draft = FALSE, !.folder = "Sent",
                                                    !.sent_at = "now"],
                            !.send = [raised |-> FALSE, user_id |-> user_id,
                                      email_id |-> email_id]]

SendEmail(user_id, email_id) ==
    /\ send_email(user_id, email_id)
    /\ UNCHANGED <<settings, regVars, pc, other, probe>>
    /\ UNCHANGED reqVars

SendNext ==
    \/ \E u \in MailUsers : ComposeEmail(u)
    \/ \E u \in MailUsers, id \in EmailIds : SendEmail(u, id)

SendSpec == MailInit /\ [][SendNext]_vars

(***************************************************************************)
(* get_email_folders run by two coroutines: each has a database session of *)
(* its own and is suspended at every await.                                *)
(***************************************************************************)
\* async with get_db() as db: the session a mail operation works in; it
\* sees the committed rows and what it has added itself, and no lock is
\* held between its statements
get_db(user_id) == [at |-> "select", user_id |-> user_id, k |-> 1, pending |-> {}]

\* get_email_folders is called and enters get_or_create_default_folders
BeginEnsure(c, user_id) ==
    /\ mail.sessions[c].at = "idle"
    /\ mail' = [mail EXCEPT !.sessions[c] = get_db(user_id)]
    /\ UNCHANGED <<settings, regVars, pc, other, probe>>
    /\ UNCHANGED reqVars

\* one iteration of the loop over the default names: the select, and
\* db.add of a new folder when the select found no row
SelectFolder(c) ==
    /\ mail.sessions[c].at = "select"
    /\ mail.sessions[c].k <= Len(default_folder_list)
    /\ LET session == mail.sessions[c]
           name == default_folder_list[session.k]
           found == mail.folders[session.user_id][name] > 0 \/ name \in session.pending
       IN  mail' = [mail EXCEPT
                      !.sessions[c].k = session.k + 1,
                      !.sessions[c].pending =
                          IF found THEN session.pending ELSE session.pending \cup {name}]
    /\ UNCHANGED <<settings, regVars, pc, other, probe>>
    /\ UNCHANGED reqVars

\* await db.commit() after the loop: the added folders become rows; the
\* rest of get_email_folders only reads
CommitFolders(c) ==
    /\ mail.sessions[c].at = "select"
    /\ mail.sessions[c].k > Len(default_folder_list)
    /\ LET session == mail.sessions[c]
       IN  mail' = [mail EXCEPT
                      !.folders[session.user_id] =
                          [n \in default_folders |->
                              IF n \in session.pending THEN @[n] + 1 ELSE @[n]],
                      !.sessions[c] = NoSession]
    /\ UNCHANGED <<settings, regVars, pc, other, probe>>
    /\ UNCHANGED reqVars

FolderNext ==
    \/ \E c \in Coroutines, u \in MailUsers : BeginEnsure(c, u)
    \/ \E c \in Coroutines : SelectFolder(c)
    \/ \E c \in Coroutines : CommitFolders(c)

FolderSpec == MailInit /\ [][FolderNext]_vars

(***************************************************************************)
(* Two chat coroutines on one event loop.  The variables of the handler    *)
(* are those of the coroutine that runs; `other` is the suspended one.     *)
(***************************************************************************)
CurrentFrame ==
    Frame(pc, request, messages, steps, response, tool_results, idx, final_message,
          failure, completions, dispatched)

\* the running coroutine is at an await that gives the loop back, or has
\* ended.  A handler called on the loop itself ("inline") keeps the loop
AtSuspension ==
    \/ pc \in {"idle", "first", "enter_tools", "second", "done", "failed", "rejected"}
    \/ pc = "in_call" /\ CallMode(response.tool_calls, idx) \in {"await", "executor"}

\* variant: `steps` is one list of the module, not a local of chat
Switch_SharedSteps ==
    /\ other.pc # None
    /\ AtSuspension
    /\ pc' = other.pc
    /\ request' = other.request
    /\ messages' = other.messages
    /\ steps' = steps
    /\ response' = other.response
    /\ tool_results' = other.tool_results
    /\ idx' = other.idx
    /\ final_message' = other.final_message
    /\ failure' = other.failure
    /\ completions' = other.completions
    /\ dispatched' = other.dispatched
    /\ other' = CurrentFrame
    /\ UNCHANGED <<settings, regVars, probe, mail>>

\* the loop suspends the running coroutine and resumes the other one; the
\* locals of chat (main.py 144-181) go with their coroutine
Switch ==
    /\ other.pc # None
    /\ AtSuspension
    /\ pc' = other.pc
    /\ request' = other.request
    /\ messages' = other.messages
    /\ steps' = other.steps
    /\ response' = other.response
    /\ tool_results' = other.tool_results
    /\ idx' = other.idx
    /\ final_message' = other.final_message
    /\ failure' = other.failure
    /\ completions' = other.completions
    /\ dispatched' = other.dispatched
    /\ other' = CurrentFrame
    /\ UNCHANGED <<settings, regVars, probe, mail>>

\* the two requests that are served together
ConcRequests ==
    { [messages |-> <<User("hi")>>, user_id |-> None, valid |-> TRUE],
      [messages |-> <<User("hi"), Assistant("yo"), User("bye")>>, user_id |-> "u1",
       valid |-> TRUE] }

\* answers of the backend while two requests are served
ConcOutcomes ==
    { [fail |-> TRUE, content |-> <<>>, calls |-> <<>>, rev |-> FALSE],
      [fail |-> FALSE, content |-> <<"text">>, calls |-> <<>>, rev |-> FALSE],
      [fail |-> FALSE, content |-> <<>>, rev |-> FALSE,
       calls |-> <<[name |-> "web.navigate", arguments |-> "json"]>>],
      [fail |-> FALSE, content |-> <<>>, rev |-> FALSE,
       calls |-> <<[name |-> "ghost.tool", arguments |-> "json"],
                   [name |-> "web.navigate", arguments |-> "json"]>>] }

ConcFirstOutcomes ==
    IF ActiveBackend(settings) = "mock" THEN {NoOutcome} ELSE ConcOutcomes
ConcSecondOutcomes ==
    IF ActiveBackend(settings) = "mock" THEN {NoOutcome}
    ELSE { o \in ConcOutcomes : o.calls = <<>> }

\* the definition the extension registers
ConcTool ==
    ToolDefinition("web.navigate", "Navigate to a URL",
        <<ToolParameter("url", "string", "The URL", TRUE, NoEnum)>>, "system")

ConcInit ==
    /\ settings \in {{}, {"anthropic"}}
    /\ reg_tools = <<>>
    /\ reg_handlers = [n \in CatalogNames |-> NoHandler]
    /\ reg_categories = {"system"}
    /\ pc = "startup"
    /\ InitRequest
    /\ other = IdleFrame
    /\ probe = NoProbe
    /\ mail = NoMail

ConcNext ==
    \/ \E h \in Handlers : register_tool(ConcTool, h)
    \/ StartServing
    \/ \E req \in ConcRequests : Receive(req)
    \/ \E env \in ConcFirstOutcomes : FirstCompletion(env)
    \/ \E ok \in BOOLEAN : EnterTools(ok)
    \/ BeginCall
    \/ \E out \in Outcomes : DispatchCall(out)
    \/ AppendToolMessages
    \/ \E env \in ConcSecondOutcomes : SecondCompletion(env)
    \/ NextRequest
    \/ Switch

ConcSpec == ConcInit /\ [][ConcNext]_vars

(***************************************************************************)
(* Properties of the chat turn.                                            *)
(***************************************************************************)
\* the tool calls the turn has to process
Calls == IF HasToolCalls(response) THEN response.tool_calls ELSE <<>>

\* positions of `steps` that hold a tool step
ToolSteps == { k \in DOMAIN steps : steps[k].type \in {"tool_call", "tool_error"} }

\* the handler or method of call j ran and returned a value
Returned(j) == dispatched[j].invoked /\ dispatched[j].outcome \in Values

\* the handler or method of call j ran and raised
Raises(j) == dispatched[j].invoked /\ dispatched[j].outcome = "raise"

\* C1: in the trace of a request that returns, `input` is the first step;
\* when the trace holds a tool_call or tool_error step, a final_response
\* step is the last step and comes after all of them; when it holds none,
\* llm_response is the last step.
C1_StepTraceOrder ==
    pc = "done" =>
        /\ steps # <<>>
        /\ steps[1].type = "input"
        /\ \A k \in DOMAIN steps : k > 1 => steps[k].type # "input"
        /\ IF ToolSteps # {}
           THEN /\ steps[Len(steps)].type = "final_response"
                /\ \A k \in ToolSteps : k < Len(steps)
                /\ \A k \in DOMAIN steps : steps[k].type = "final_response" => k = Len(steps)
           ELSE steps[Len(steps)].type = "llm_response"

C1_Witness ==
    /\ pc = "done"
    /\ \E k \in ToolSteps : steps[k].type = "tool_call"
    /\ \E k \in ToolSteps : steps[k].type = "tool_error"

\* C2: when the first completion carries exactly one tool call, naming a
\* catalog tool with a bound handler, and that handler returns v, the
\* returned step kinds are input, llm_response, tool_call, final_response
\* and the tool_call step's result has status success and data v.
C2_OneCatalogCall ==
    ( /\ pc = "done"
      /\ Len(Calls) = 1
      /\ can_handle(Calls[1].name)
      /\ Len(dispatched) = 1
      /\ dispatched[1].outcome \in Values )
    => /\ StepKinds(steps) = <<"input", "llm_response", "tool_call", "final_response">>
       /\ steps[3].tool_call = Calls[1]
       /\ steps[3].result.status = "success"
       /\ steps[3].result.data = dispatched[1].outcome
       /\ steps[3].result.error = Absent

C2_Witness ==
    /\ pc = "done"
    /\ Len(Calls) = 1
    /\ can_handle(Calls[1].name)
    /\ Len(dispatched) = 1
    /\ dispatched[1].route = "catalog"
    /\ dispatched[1].outcome = "v2"
    /\ steps[3].result.data = "v2"

\* C3: in a turn of two or more tool calls every call is invoked in its
\* turn, also after an earlier call raised, and the result of a call
\* depends on its own handler only: a call whose handler returns v is
\* recorded as a successful tool_call with v, whatever happened before it.
C3_DispatchIsolation ==
    /\ Len(dispatched) = Len(tool_results)
    /\ Len(dispatched) <= Len(Calls)
    /\ \A j \in DOMAIN dispatched :
          /\ dispatched[j].index = j
          /\ dispatched[j].name = Calls[j].name
          /\ tool_results[j].tool_call_id = Calls[j].id
          /\ Returned(j) =>
                /\ steps[j + 2].type = "tool_call"
                /\ steps[j + 2].result = tool_results[j].result
                /\ IF dispatched[j].route = "catalog"
                   THEN /\ tool_results[j].result.status = "success"
                        /\ tool_results[j].result.data = dispatched[j].outcome
                   ELSE /\ tool_results[j].result.success = "True"
                        /\ tool_results[j].result.result = dispatched[j].outcome
    /\ pc = "tools" => Len(dispatched) = idx - 1
    /\ (pc \in {"second", "done"} /\ Calls # <<>>) => Len(dispatched) = Len(Calls)
    /\ dispatched # <<>> => pc # "failed"

C3_Witness ==
    /\ pc = "done"
    /\ Len(Calls) >= 2
    /\ Raises(1)
    /\ Returned(2)
    /\ tool_results[1].result.success = "False"
    /\ tool_results[2].result.success = "True"

\* neither the catalog nor the built-in system tools know the name
Unknown(name) == ~can_handle(name) /\ name \notin tool_map

\* the tool messages the turn has appended to the caller's history
Appended(history) == SubSeq(history, Len(request.messages) + 1, Len(history))

\* C4: a tool call naming a tool that neither the catalog nor the built-in
\* system tools know is recorded as a tool_error step; the calls after it
\* are still processed; the turn is not aborted: it goes on to the second
\* completion and ends with a final_response step.
C4_UnknownToolRecorded ==
    /\ \A j \in DOMAIN dispatched :
          Unknown(Calls[j].name) =>
             /\ steps[j + 2].type = "tool_error"
             /\ steps[j + 2].tool_call = Calls[j]
             /\ steps[j + 2].error = "Unknown tool: " \o Calls[j].name
             /\ ~dispatched[j].invoked
             /\ pc # "failed"
             /\ pc = "tools" => idx > j
             /\ pc \in {"second", "done"} => Len(dispatched) = Len(Calls)
             /\ pc = "done" =>
                   /\ Len(completions) = 2
                   /\ steps[Len(steps)].type = "final_response"
                   /\ Len(steps) = Len(Calls) + 3

C4_Witness ==
    /\ pc = "done"
    /\ Len(Calls) = 2
    /\ Unknown(Calls[1].name)
    /\ steps[3].type = "tool_error"
    /\ steps[4].type = "tool_call"
    /\ steps[5].type = "final_response"

\* C5: every tool message appended to the history in the tool phase has a
\* tool_call_id that is the id of exactly one tool call of the first
\* completion of the turn.
C5_ToolMessageLinked ==
    pc \in {"first", "enter_tools", "tools", "second", "done"} =>
        \A k \in DOMAIN Appended(messages) :
            /\ Appended(messages)[k].role = "tool"
            /\ Cardinality({ j \in DOMAIN Calls :
                               Calls[j].id = Appended(messages)[k].tool_call_id }) = 1

C5_Witness ==
    /\ pc = "done"
    /\ Len(Appended(messages)) >= 2
    /\ Appended(messages)[1].tool_call_id # Appended(messages)[2].tool_call_id

\* C6: with N tool calls in the first completion, the history handed to
\* the second completion is followed by exactly N tool result messages,
\* the k-th of them answering the k-th call, whichever calls succeed or fail.
C6_ResultOrder ==
    Len(completions) = 2 =>
        LET history == completions[2].messages
        IN  /\ Len(history) = Len(request.messages) + Len(Calls)
            /\ SubSeq(history, 1, Len(request.messages)) = request.messages
            /\ \A k \in DOMAIN Calls :
                  /\ Appended(history)[k].role = "tool"
                  /\ Appended(history)[k].tool_call_id = Calls[k].id
                  /\ Appended(history)[k].content =
                        JsonDumps(IF steps[k + 2].type = "tool_error"
                                  THEN CallFailure(steps[k + 2].error)
                                  ELSE steps[k + 2].result)

C6_Witness ==
    /\ Len(completions) = 2
    /\ Len(Calls) = 2
    /\ Calls[1].name = Calls[2].name
    /\ steps[3].type = "tool_error"
    /\ steps[4].type = "tool_error"
    /\ completions[2].messages[Len(request.messages) + 1].tool_call_id = "bk_2"

\* C7: the second completion is asked without any tool schema, and tool
\* calls of its message are not dispatched: a turn dispatches as many
\* calls as the first completion carries.
C7_OneToolRound ==
    /\ Len(completions) <= 2
    /\ Len(completions) = 2 =>
          /\ ~completions[2].tools_given
          /\ completions[2].tools = <<>>
    /\ Len(dispatched) <= Len(Calls)
    /\ pc = "done" => Len(dispatched) = Len(Calls)

C7_Witness ==
    /\ pc = "done"
    /\ Len(completions) = 2
    /\ final_message.has_tool_calls
    /\ Len(dispatched) = 1

\* positions of the handler between the arrival of a request and its end
InTurn == {"first", "enter_tools", "tools", "in_call", "second"}

\* the number of steps the handler can still take in this turn
Measure ==
    CASE pc = "first" -> 2 * MaxCalls + 4
      [] pc = "enter_tools" -> 2 * Len(Calls) + 3
      [] pc = "tools" -> 2 * (Len(Calls) - idx) + 4
      [] pc = "in_call" -> 2 * (Len(Calls) - idx) + 3
      [] pc = "second" -> 1
      [] OTHER -> 0

C9_NoToolCalls ==
    (pc = "done" /\ ~(response.has_tool_calls /\ response.tool_calls # <<>>)) =>
        /\ dispatched = <<>>
        /\ Len(completions) = 1
        /\ StepKinds(steps) = <<"input", "llm_response">>
        /\ messages = request.messages
        /\ steps[2].message = response
        /\ final_message.role = response.role
        /\ final_message.content = response.content
        /\ ~final_message.has_tool_calls

C9_Witness ==
    /\ pc = "done"
    /\ ~response.has_tool_calls
    /\ response.content = <<"text">>
    /\ final_message.content = <<"text">>

\* C10: every well-formed chat request resolves to a response that carries
\* an assistant message: no exception leaves the handler, whatever the
\* provider, the set-up of the system tools or a tool call does; only a
\* malformed request is rejected.
C10_AlwaysResolves ==
    /\ pc = "failed" => ~request.valid
    /\ pc = "rejected" => ~request.valid
    /\ pc = "done" => final_message.role = "assistant"

(***************************************************************************)
(* Properties of the provider adapter.                                     *)
(***************************************************************************)
\* C11: acomplete never raises to its caller: whatever the active backend,
\* the history, the tool set and the system string, a failure while the
\* backend call is prepared or performed comes back as an assistant
\* message with a diagnostic text.
C11_NeverRaises ==
    /\ failure # "provider"
    /\ \A k \in DOMAIN completions : ~completions[k].raised

\* C12: each completion is served by one backend, chosen by precedence:
\* OpenAI when configured, else Anthropic when configured, else Azure
\* OpenAI when configured, else mock mode; mock mode exactly when no
\* backend is configured.
C12_BackendPrecedence ==
    \A k \in DOMAIN completions :
        LET b == completions[k].backend
        IN  /\ b \in Backends \cup {"mock"}
            /\ b = "openai" <=> "openai" \in settings
            /\ b = "anthropic" <=> ("anthropic" \in settings /\ "openai" \notin settings)
            /\ b = "azure" <=> ("azure" \in settings /\ settings \cap {"openai", "anthropic"} = {})
            /\ b = "mock" <=> settings = {}
            /\ b = "anthropic" <=> completions[k].system_slot = WIND_SYSTEM_PROMPT
            /\ (b = "mock" /\ ~completions[k].raised /\ pc = "done") =>
                  final_message.content[1] = MockMarker

C12_Witness ==
    /\ settings = {"anthropic", "azure"}
    /\ Len(completions) = 2
    /\ completions[1].backend = "anthropic"
    /\ completions[2].backend = "anthropic"

\* the content of the most recent user message of a history
LatestUserContent(history) ==
    LET users == { k \in DOMAIN history : history[k].role = "user" }
    IN  history[CHOOSE k \in users : \A j \in users : j <= k].content

\* C13: with no backend configured the final message holds the mock marker
\* and, verbatim, the content of the most recent user message of the
\* history, also when the tool phase has appended tool messages after it.
C13_MockEcho ==
    (pc = "done" /\ settings = {}) =>
        /\ final_message.role = "assistant"
        /\ Head(final_message.content) = MockMarker
        /\ (\E k \in DOMAIN request.messages : request.messages[k].role = "user") =>
              SubSeq(final_message.content, 2, Len(final_message.content) - 1)
                  = LatestUserContent(request.messages)

C13_Witness ==
    /\ pc = "done"
    /\ settings = {}
    /\ Len(completions) = 2
    /\ Len(messages) > Len(request.messages)
    /\ messages[Len(messages)].role = "tool"
    /\ final_message.content[2] = "bye"

\* C14: a request with an empty message list is accepted and answered with
\* a success response that holds a message and a non-empty step trace.
C14_EmptyHistoryServed ==
    (request.valid /\ request.messages = <<>>) =>
        /\ pc \notin {"rejected", "failed"}
        /\ pc = "done" => (final_message.role = "assistant" /\ steps # <<>>)

(***************************************************************************)
(* Properties of the tools registry.                                       *)
(***************************************************************************)
\* number of catalog entries of a name
Entries(tools, name) == Cardinality({ k \in DOMAIN tools : tools[k].name = name })

\* C15: the catalog holds at most one definition per name; registering a
\* definition under a name, new or already present, leaves exactly one
\* entry of that name in list_tools(), get_tool(name) is the definition
\* just registered and the handler bound to the name is the one just
\* registered, which is the one a later dispatch invokes.
C15_LastRegistrationWins ==
    /\ [](\A n \in CatalogNames : Entries(list_tools, n) <= 1)
    /\ [][\A d \in ToolDefs :
            /\ add_tool(d) =>
                  /\ Entries(reg_tools', d.name) = 1
                  /\ GetTool(reg_tools', d.name) = d
            /\ \A h \in Handlers : register_tool(d, h) =>
                  /\ Entries(reg_tools', d.name) = 1
                  /\ GetTool(reg_tools', d.name) = d
                  /\ reg_handlers'[d.name] = h]_vars
    /\ [](\A j \in DOMAIN dispatched :
            dispatched[j].route = "catalog" =>
                dispatched[j].handler = reg_handlers[dispatched[j].name])

\* a definition of web.navigate has replaced the one of category social,
\* and the handler bound to the name has been dispatched
C15_Witness ==
    /\ Len(list_tools) = 1
    /\ get_tool("web.navigate").category = "system"
    /\ "social" \in reg_categories
    /\ pc = "done"
    /\ dispatched # <<>>
    /\ dispatched[1].route = "catalog"
    /\ dispatched[1].handler = reg_handlers["web.navigate"]

\* the required parameters of a definition, in declaration order
RequiredInOrder(tool_def) ==
    LET ps == tool_def.parameters
        req == { k \in DOMAIN ps : ps[k].required }
        pos(i) == CHOOSE k \in req : Cardinality({ j \in req : j < k }) = i - 1
    IN  [i \in 1..Cardinality(req) |-> ps[pos(i)].name]

\* C18: the OpenAI and the Anthropic schema of every catalog tool agree:
\* same name, same description, and the same parameter object, whose
\* properties have the keys of the declared parameters and whose required
\* list is the required parameters in declaration order.
C18_DialectsAgree ==
    \A k \in DOMAIN list_tools :
        LET d == list_tools[k]
            o == get_openai_schemas[k].function
            a == get_anthropic_schemas[k]
        IN  /\ o.name = d.name /\ a.name = d.name
            /\ o.description = d.description /\ a.description = d.description
            /\ o.parameters = a.input_schema
            /\ DOMAIN a.input_schema.properties
                   = { d.parameters[i].name : i \in DOMAIN d.parameters }
            /\ a.input_schema.required = RequiredInOrder(d)
            /\ o.parameters.required = RequiredInOrder(d)

\* a catalog tool with an optional parameter and a parameter with an enum
C18_Witness ==
    \E k \in DOMAIN list_tools :
        LET a == get_anthropic_schemas[k].input_schema
        IN  /\ Len(a.required) >= 1
            /\ Len(a.required) < Len(list_tools[k].parameters)
            /\ \E n \in DOMAIN a.properties : "enum" \in DOMAIN a.properties[n]
            /\ \E n \in DOMAIN a.properties : "enum" \notin DOMAIN a.properties[n]

\* the name has no catalog entry, or no handler bound to it
CannotHandle(name) ==
    \/ Entries(list_tools, name) = 0
    \/ name \notin DOMAIN reg_handlers
    \/ reg_handlers[name] = NoHandler

Probed == probe.name # None

\* C16: a dispatch of a name that is not registered, or is registered
\* without a handler, returns an error ToolResult to the caller and invokes
\* no handler.
C16_NotFoundResult ==
    (Probed /\ CannotHandle(probe.name)) =>
        /\ ~probe.raised
        /\ probe.result.status = "error"
        /\ ~probe.invoked

\* C16, as the code has it: a dispatch of a name that is not registered,
\* or is registered without a handler, raises ValueError to the caller at
\* once: no ToolResult is returned and no handler is invoked.
C16_NotFoundRaises ==
    (Probed /\ CannotHandle(probe.name)) =>
        /\ probe.raised
        /\ probe.error = "Tool '" \o probe.name \o "' cannot be handled"
        /\ probe.result = NoResult
        /\ ~probe.invoked
        /\ probe.out = None

\* a name with a catalog entry and no handler has been dispatched
C16_Witness ==
    /\ Probed
    /\ Entries(list_tools, probe.name) = 1
    /\ reg_handlers[probe.name] = NoHandler
    /\ probe.raised

\* C17: a dispatch of a registered name with a handler, synchronous or
\* asynchronous, never lets the handler's exception out: a handler that
\* raises gives a result of status "error" with the exception's message, a
\* handler that returns v gives status "success" with data v.
C17_HandlerOutcomeWrapped ==
    (Probed /\ ~CannotHandle(probe.name)) =>
        /\ probe.invoked
        /\ probe.handler \in Handlers
        /\ ~probe.raised
        /\ probe.out = "raise" =>
              /\ probe.result.status = "error"
              /\ probe.result.error = "handler failed"
              /\ probe.result.data = Absent
        /\ probe.out \in Values =>
              /\ probe.result.status = "success"
              /\ probe.result.data = probe.out
              /\ probe.result.error = Absent

\* a synchronous handler has raised inside a dispatch
C17_Witness ==
    /\ Probed
    /\ probe.handler = "h_sync"
    /\ probe.out = "raise"
    /\ probe.result.status = "error"

(***************************************************************************)
(* Properties of concurrent requests.                                      *)
(***************************************************************************)
\* the tool calls a coroutine has to process
FrameCalls(f) == IF HasToolCalls(f.response) THEN f.response.tool_calls ELSE <<>>

\* everything a coroutine holds comes from its own request, its own
\* completions and its own tool calls
FrameOwn(f) ==
    f.pc \in InTurn \cup {"done"} =>
        /\ f.request \in ConcRequests
        /\ f.steps # <<>> /\ f.steps[1].type = "input"
        /\ f.completions # <<>> => f.completions[1].messages = f.request.messages
        /\ Len(f.steps) >= 2 => f.steps[2].message = f.response
        /\ Len(f.tool_results) = Len(f.dispatched)
        /\ Len(f.tool_results) <= Len(FrameCalls(f))
        /\ \A j \in DOMAIN f.tool_results :
              /\ f.tool_results[j].tool_call_id = FrameCalls(f)[j].id
              /\ f.tool_results[j].name = FrameCalls(f)[j].name
              /\ f.steps[j + 2].tool_call = FrameCalls(f)[j]
              /\ f.dispatched[j].name = FrameCalls(f)[j].name
              /\ f.dispatched[j].route = "catalog" =>
                    f.dispatched[j].user_id = Context(f.request)
        /\ Len(f.steps) = (IF f.response = NoMessage THEN 1 ELSE 2) + Len(f.tool_results)
                          + (IF f.pc = "done" /\ FrameCalls(f) # <<>> THEN 1 ELSE 0)
        /\ f.messages = f.request.messages
               \o (IF f.pc \in {"second", "done"} /\ FrameCalls(f) # <<>>
                   THEN [k \in DOMAIN f.tool_results |-> ToolMessage(f.tool_results[k])]
                   ELSE <<>>)
        /\ f.pc = "done" =>
              /\ f.final_message = Message(f.steps[Len(f.steps)].message)
              /\ settings = {} =>
                    SubSeq(f.final_message.content, 2, Len(f.final_message.content) - 1)
                        = LatestUserContent(f.request.messages)

\* C19: concurrent chat requests are independent.  However two requests
\* interleave at their suspension points, a step of the running request
\* leaves the suspended one as it was, a switch only exchanges the two, and
\* the step trace, history and final message of each request come from its
\* own request, completions and tool calls: nothing of one request shows
\* up in the other.
C19_RequestsIndependent ==
    /\ [](FrameOwn(CurrentFrame) /\ FrameOwn(other))
    /\ [][other' # other => (other' = CurrentFrame /\ CurrentFrame' = other)]_vars
    /\ [][pc # "startup" => UNCHANGED <<settings, regVars>>]_vars

\* one request has returned after its tool phase while the other, a
\* different request, is suspended in the middle of its own
C19_Witness ==
    /\ pc = "done"
    /\ Len(steps) >= 4
    /\ other.pc = "second"
    /\ Len(other.steps) >= 3
    /\ other.request # request
    /\ other.messages # messages

\* the handler the coroutine f is running, if it is in a catalog call
RunningHandler(f) ==
    IF f.pc = "in_call" /\ can_handle(f.response.tool_calls[f.idx].name)
    THEN reg_handlers[f.response.tool_calls[f.idx].name]
    ELSE NoHandler

\* C20: a synchronous handler runs off the request-serving path, in the
\* executor: while it executes for one request the loop can switch to the
\* other request, which can take its steps; an asynchronous handler is
\* awaited directly.
C20_SyncHandlerOffLoop ==
    /\ \A f \in {CurrentFrame, other} : \A j \in DOMAIN f.dispatched :
          f.dispatched[j].route = "catalog" =>
              /\ f.dispatched[j].handler = "h_sync" => f.dispatched[j].mode = "executor"
              /\ f.dispatched[j].handler = "h_async" => f.dispatched[j].mode = "await"
    /\ RunningHandler(CurrentFrame) = "h_sync" =>
          /\ CallMode(response.tool_calls, idx) = "executor"
          /\ ENABLED Switch
    /\ RunningHandler(CurrentFrame) = "h_async" =>
          CallMode(response.tool_calls, idx) = "await"
    /\ (RunningHandler(other) = "h_sync" /\ pc \in InTurn) => ENABLED <<Next>>_vars

\* a synchronous handler is executing for the suspended request and the
\* running request is inside its turn
C20_Witness ==
    /\ RunningHandler(other) = "h_sync"
    /\ pc = "second"
    /\ Len(steps) >= 3
    /\ other.request # request

(***************************************************************************)
(* Properties of the mail extension.                                       *)
(***************************************************************************)
Listed == mail.listing.page # 0

\* the smallest n with n * d >= t
Ceiling(t, d) == CHOOSE n \in 0..t : n * d >= t /\ \A m \in 0..t : m * d >= t => n <= m

\* C21: a listing answers with a page description consistent with the
\* request: page and page_size are the requested ones, it holds at most
\* page_size emails, and total_pages is the ceiling of total / page_size.
C21_PageDescription ==
    Listed =>
        /\ ~mail.listing.raised
        /\ mail.listing.page \in 1..MaxPage
        /\ Len(mail.listing.emails) <= mail.listing.page_size
        /\ mail.listing.total = 0 => mail.listing.total_pages = 0
        /\ mail.listing.total > 0 =>
              /\ mail.listing.page_size > 0
              /\ mail.listing.total_pages
                    = Ceiling(mail.listing.total, mail.listing.page_size)

(***************************************************************************)
(* Further properties of the chat turn and of the provider adapter.        *)
(***************************************************************************)
\* C22: after the tool phase every tool call of the first completion has
\* exactly one step, a tool_call or a tool_error, and exactly one tool
\* message, with the id of the call and the serialized result as content;
\* tool steps, appended tool messages and tool calls are equal in number.
C22_OneStepOneMessage ==
    (pc \in {"second", "done"} /\ Calls # <<>>) =>
        /\ ToolSteps = { j + 2 : j \in DOMAIN Calls }
        /\ Cardinality(ToolSteps) = Len(Calls)
        /\ Len(Appended(messages)) = Len(Calls)
        /\ \A j \in DOMAIN Calls :
              /\ steps[j + 2].tool_call = Calls[j]
              /\ Appended(messages)[j] =
                    [role |-> "tool", tool_call_id |-> Calls[j].id,
                     content |-> JsonDumps(tool_results[j].result)]
              /\ steps[j + 2].type = "tool_call" =>
                    /\ steps[j + 2].error = ""
                    /\ steps[j + 2].result = tool_results[j].result
              /\ steps[j + 2].type = "tool_error" =>
                    /\ steps[j + 2].result = NoResult
                    /\ tool_results[j].result = CallFailure(steps[j + 2].error)

\* a call that succeeded and a call that raised, both answered
C22_Witness ==
    /\ pc = "done"
    /\ Len(Calls) = 2
    /\ steps[3].type = "tool_call"
    /\ steps[4].type = "tool_error"
    /\ Len(Appended(messages)) = 2

\* C23: every tool call goes to one handler set: to the catalog exactly
\* when the catalog has a definition and a handler for the name, else to
\* the built-in system tools; a name known to both is served by the catalog.
C23_RoutedOnce ==
    \A j \in DOMAIN dispatched :
        LET d == dispatched[j]
        IN  /\ d.route \in {"catalog", "system"}
            /\ d.route = "catalog" <=> ~CannotHandle(d.name)
            /\ d.route = "catalog" =>
                  /\ d.handler = reg_handlers[d.name]
                  /\ d.handler \in Handlers
                  /\ d.invoked
                  /\ tool_results[j].result.status \in {"success", "error"}
                  /\ tool_results[j].result.success = Absent
            /\ d.route = "system" =>
                  /\ d.handler = NoHandler
                  /\ d.invoked <=> d.name \in tool_map
                  /\ tool_results[j].result.status = Absent
                  /\ tool_results[j].result.success \in {"True", "False"}

\* a name of the built-in set has been served by the catalog
C23_Witness ==
    /\ pc = "done"
    /\ dispatched # <<>>
    /\ dispatched[1].name \in tool_map
    /\ dispatched[1].route = "catalog"
    /\ dispatched[1].handler = "h_async"
    /\ tool_results[1].result.data = "v2"

\* C24: in every catalog dispatch of the chat handler the handler gets the
\* user id of the request when there is one and "default_user" otherwise;
\* the dispatcher hands on the context it was given, an absent context as
\* an empty mapping.
C24_ContextForwarded ==
    /\ \A j \in DOMAIN dispatched :
          dispatched[j].route = "catalog" =>
              dispatched[j].user_id =
                  (IF request.user_id \in UserIds \ {None} THEN request.user_id
                   ELSE "default_user")
    /\ \A n \in CatalogNames : ~CannotHandle(n) =>
          \A c \in Contexts : \A out \in Outcomes :
              handle(n, "map", c, out).context = (IF c = None THEN "{}" ELSE c)

\* a request without user id has been served by a catalog handler
C24_Witness ==
    /\ pc = "done"
    /\ request.user_id = None
    /\ dispatched # <<>>
    /\ dispatched[1].route = "catalog"
    /\ dispatched[1].user_id = "default_user"

\* C25: a tool call of a chat-completions backend whose arguments cannot
\* be decoded is kept: the normalized message has the calls of the backend
\* answer, in number and order, the undecodable arguments replaced by the
\* error marker, and the chat handler dispatches the call and appends a
\* tool message for it.
C25_UndecodableKept ==
    (completions # <<>> /\ completions[1].backend \in {"openai", "azure"}
        /\ ~completions[1].raised /\ pc \in InTurn \cup {"done"} /\ pc # "first") =>
        LET received == completions[1].received
        IN  /\ Len(Calls) = Len(received)
            /\ \A j \in DOMAIN received :
                  /\ Calls[j].id = received[j].id
                  /\ Calls[j].name = received[j].name
                  /\ Calls[j].arguments =
                        (IF received[j].arguments = "garbage" THEN "marker" ELSE "map")
                  /\ pc \in {"second", "done"} =>
                        /\ j \in DOMAIN dispatched
                        /\ tool_results[j].arguments = Calls[j].arguments
                        /\ Appended(messages)[j].tool_call_id = received[j].id

\* an undecodable call and a decodable one have both been answered
C25_Witness ==
    /\ pc = "done"
    /\ completions[1].backend = "azure"
    /\ Len(completions[1].received) = 2
    /\ completions[1].received[1].arguments = "garbage"
    /\ completions[1].received[2].arguments = "json"
    /\ Calls[1].arguments = "marker"
    /\ Len(Appended(messages)) = 2

\* the ids of a list of tool calls are pairwise distinct
DistinctIds(calls) ==
    \A i, j \in DOMAIN calls : i # j => calls[i].id # calls[j].id

\* C26: within one adapter response the tool call ids are pairwise
\* distinct; the Anthropic path, whose backend gives no ids, makes them
\* from the position (call_0, call_1, ...), the other paths hand on the
\* ids of the backend.
C26_IdsDistinct ==
    /\ DistinctIds(response.tool_calls)
    /\ DistinctIds(final_message.tool_calls)
    /\ completions # <<>> =>
          /\ completions[1].backend = "anthropic" =>
                \A j \in DOMAIN response.tool_calls :
                    response.tool_calls[j].id = "call_" \o ToString(j - 1)
          /\ completions[1].backend \in {"openai", "azure"} =>
                \A j \in DOMAIN response.tool_calls :
                    response.tool_calls[j].id = completions[1].received[j].id

\* two tool calls of the same name in one Anthropic answer
C26_Witness ==
    /\ completions # <<>>
    /\ completions[1].backend = "anthropic"
    /\ Len(response.tool_calls) = 2
    /\ response.tool_calls[1].name = response.tool_calls[2].name
    /\ response.tool_calls[2].id = "call_1"

\* positions of a message list that hold a system message
SystemPositions(msgs) == { i \in DOMAIN msgs : msgs[i].role = "system" }

\* C27: the OpenAI and Azure paths send the system string as one system
\* message placed first, followed by the history in order; the Anthropic
\* path passes the system string out of band and sends no system message.
C27_SystemPrompt ==
    \A k \in DOMAIN completions :
        LET c == completions[k]
        IN  /\ c.backend \in {"openai", "azure"} =>
                  /\ c.sent # <<>>
                  /\ c.sent[1].role = "system"
                  /\ c.sent[1].content = <<c.system>>
                  /\ Tail(c.sent) = c.messages
                  /\ SystemPositions(c.sent) = {1}
                  /\ c.system_slot = None
            /\ c.backend = "anthropic" =>
                  /\ c.system_slot = c.system
                  /\ SystemPositions(c.sent) = {}

\* the Azure path has sent a history with tool messages
C27_Witness ==
    /\ Len(completions) = 2
    /\ completions[2].backend = "azure"
    /\ Len(completions[2].sent) = Len(messages) + 1
    /\ completions[2].sent[Len(messages) + 1].role = "tool"

\* C28: for every backend the whole history, the tool messages of the tool
\* phase included, reaches the backend in the second completion, in order.
C28_FullHistory ==
    (Len(completions) = 2 /\ completions[2].backend # "mock") =>
        SelectSeq(completions[2].sent, LAMBDA m : m.role # "system")
            = completions[2].messages

\* C29: the tool calls of a turn run one after the other in the order of
\* the response: a call is begun only when all calls before it have
\* ended, and the second completion only when the last call has ended.
C29_Sequential ==
    /\ \A j \in DOMAIN dispatched : dispatched[j].index = j
    /\ pc = "in_call" => (idx \in DOMAIN Calls /\ Len(dispatched) = idx - 1)
    /\ pc = "tools" => Len(dispatched) = idx - 1
    /\ (pc \in {"second", "done"} /\ Calls # <<>>) => Len(dispatched) = Len(Calls)
    /\ Len(completions) = 2 => Len(dispatched) = Len(Calls)

\* the second call is running, the first has ended
C29_Witness ==
    /\ pc = "in_call"
    /\ idx = 2
    /\ Len(dispatched) = 1
    /\ Len(Calls) = 2

\* the list the `messages` key of a step refers to when the trace is
\* returned: the input step holds the list `messages` itself
StepMessages(step) ==
    IF step.messages = "ref:messages" THEN messages ELSE <<>>

\* C30: a recorded step is not altered later; the input step of the
\* returned trace holds the history the caller supplied, without the tool
\* messages of the tool phase.
C30_InputStepFrozen ==
    pc = "done" =>
        /\ steps[1].type = "input"
        /\ StepMessages(steps[1]) = request.messages

\* C31: the catalog is read-only while requests are served: once the
\* application serves, no step of a chat request (schema export,
\* can_handle, dispatch, a failing handler included) and no registration
\* changes the definitions, the handler bindings or the categories.
C31_CatalogReadOnly ==
    [][ /\ pc # "startup" => UNCHANGED regVars
        /\ regVars' # regVars => pc' = "startup" ]_vars

\* a request whose catalog handler failed has been served from a catalog
\* of two definitions
C31_Witness ==
    /\ pc = "done"
    /\ Len(reg_tools) = 2
    /\ reg_categories = {"system", "social"}
    /\ dispatched # <<>>
    /\ dispatched[1].route = "catalog"
    /\ dispatched[1].outcome = "raise"

\* the name of an entry of a tool list: of a ToolFunction, or of a schema
\* dictionary of the catalog
ToolName(t) == IF t.kind = "dict" THEN t.function.name ELSE t.name

\* C32: the tool set offered to the first completion holds every built-in
\* tool and every catalog tool, and no two entries of one name, also when
\* a catalog tool has the name of a built-in tool.
C32_MergedNoDuplicates ==
    \A k \in DOMAIN completions :
        completions[k].tools_given =>
            LET offered == completions[k].tools
            IN  /\ \A n \in tool_map : \E i \in DOMAIN offered : ToolName(offered[i]) = n
                /\ \A j \in DOMAIN reg_tools :
                      \E i \in DOMAIN offered : ToolName(offered[i]) = reg_tools[j].name
                /\ \A i, j \in DOMAIN offered :
                      i # j => ToolName(offered[i]) # ToolName(offered[j])

\* a history has no message of role user
NoUserMessage(history) == \A k \in DOMAIN history : history[k].role # "user"

\* C33: in mock mode a completion called with tools carries exactly one
\* tool call, of the first tool of the list with empty arguments; one
\* called without tools carries none; without a user message in the
\* history the acknowledgment holds a fixed placeholder and nothing fails.
C33_MockToolCall ==
    \A k \in DOMAIN completions :
        completions[k].backend = "mock" =>
            LET c == completions[k]
                answer == IF k = 1 THEN response ELSE final_message
            IN  /\ ~c.raised
                /\ answer.role = "assistant"
                /\ c.tools # <<>> =>
                      /\ answer.has_tool_calls
                      /\ answer.tool_calls =
                            <<[id |-> "mock_tool_call_1", name |-> ToolName(c.tools[1]),
                               arguments |-> "empty"]>>
                /\ c.tools = <<>> =>
                      /\ ~answer.has_tool_calls
                      /\ answer.tool_calls = <<>>
                /\ NoUserMessage(c.messages) =>
                      /\ Len(answer.content) = 3
                      /\ answer.content[1] = MockMarker
                      /\ answer.content[2] = "No user message found"

\* a turn on an empty history: a call of the first tool, then no call
C33_Witness ==
    /\ pc = "done"
    /\ settings = {}
    /\ request.messages = <<>>
    /\ Len(completions) = 2
    /\ completions[1].tools # <<>>
    /\ completions[2].tools = <<>>
    /\ response.tool_calls[1].name = "web.navigate"
    /\ final_message.content[2] = "No user message found"
    /\ final_message.tool_calls = <<>>

\* the first completion came back as the diagnostic message of a failure
FirstFailed ==
    /\ completions # <<>>
    /\ ~completions[1].raised
    /\ response.content # <<>>
    /\ Head(response.content) = "Error: "

\* C35: when the first completion fails at the backend, the diagnostic
\* message has no tool calls: no tool is dispatched, no second completion
\* is made and the turn returns that message with the trace input,
\* llm_response.
C35_FirstFailureReturned ==
    FirstFailed =>
        /\ pc = "done"
        /\ response.role = "assistant"
        /\ response.tool_calls = <<>>
        /\ ~response.has_tool_calls
        /\ dispatched = <<>>
        /\ tool_results = <<>>
        /\ Len(completions) = 1
        /\ StepKinds(steps) = <<"input", "llm_response">>
        /\ steps[2].message = response
        /\ final_message = Message(response)
        /\ failure = None

\* the Azure backend failed on the first completion
C35_Witness ==
    /\ pc = "done"
    /\ settings = {"azure"}
    /\ FirstFailed
    /\ Len(steps) = 2
    /\ final_message.content = <<"Error: ", "backend failure">>

\* C36: the history handed to the second completion is the history of the
\* caller, unchanged and in order, followed by one tool message per tool
\* call; the assistant message of the first completion is not in it.
C36_SecondHistory ==
    Len(completions) = 2 =>
        LET handed == completions[2].messages
            own == Len(request.messages)
        IN  /\ Len(handed) = own + Len(Calls)
            /\ SubSeq(handed, 1, own) = request.messages
            /\ \A j \in DOMAIN Calls :
                  /\ handed[own + j].role = "tool"
                  /\ handed[own + j].tool_call_id = Calls[j].id
            /\ \A k \in DOMAIN handed :
                  handed[k].role = "assistant" => (k <= own /\ handed[k] = request.messages[k])

\* a history of three messages was handed on with two tool messages
C36_Witness ==
    /\ Len(completions) = 2
    /\ Len(request.messages) = 3
    /\ Len(completions[2].messages) = 5
    /\ completions[2].messages[3] = User("bye")
    /\ completions[2].messages[5].role = "tool"

\* C37: a catalog handler that raises and a built-in system tool that
\* fails are recorded as tool_call steps whose result reports the failure
\* (status "error", success false); a tool_error step is recorded only
\* when the call raises in the chat handler: for a name neither set knows.
C37_StepClassification ==
    \A j \in DOMAIN dispatched :
        LET d == dispatched[j]
            s == steps[j + 2]
        IN  /\ (d.route = "catalog" /\ d.outcome = "raise") =>
                  /\ s.type = "tool_call"
                  /\ s.result.status = "error"
                  /\ s.result.error # Absent
            /\ (d.route = "system" /\ d.name \in tool_map /\ d.outcome = "raise") =>
                  /\ s.type = "tool_call"
                  /\ s.result.success = "False"
                  /\ s.result.error # Absent
            /\ s.type = "tool_error" <=> (d.route = "system" /\ d.name \notin tool_map)
            /\ s.type = "tool_error" => ~d.invoked

\* a built-in tool that failed, then a name nobody knows
C37_Witness ==
    /\ pc = "done"
    /\ Len(dispatched) = 2
    /\ dispatched[1].route = "system"
    /\ dispatched[1].name \in tool_map
    /\ dispatched[1].outcome = "raise"
    /\ steps[3].type = "tool_call"
    /\ steps[3].result.success = "False"
    /\ dispatched[2].name \notin tool_map
    /\ steps[4].type = "tool_error"

\* the name has a handler bound
Bound(name) == name \in DOMAIN reg_handlers /\ reg_handlers[name] \in Handlers

\* C38: after any sequence of add_tool, add_handler and register_tool
\* every name with a handler has a definition, and can_handle(name) holds
\* exactly when both exist; add_handler for a name without definition
\* raises ValueError and changes nothing; add_tool on a registered name
\* replaces the definition and keeps the handler.
C38_RegistryConsistent ==
    /\ [](\A n \in CallNames :
             /\ Bound(n) => HasTool(reg_tools, n)
             /\ can_handle(n) <=> (HasTool(reg_tools, n) /\ Bound(n)))
    /\ [][ /\ \A n \in CatalogNames, h \in Handlers :
                 add_handler(n, h) =>
                     IF HasTool(reg_tools, n)
                     THEN /\ reg_handlers' = [reg_handlers EXCEPT ![n] = h]
                          /\ UNCHANGED <<reg_tools, reg_categories, failure>>
                     ELSE /\ failure' = "ValueError"
                          /\ UNCHANGED regVars
           /\ \A d \in ToolDefs :
                 add_tool(d) =>
                     /\ reg_handlers' = reg_handlers
                     /\ GetTool(reg_tools', d.name) = d
                     /\ Entries(reg_tools', d.name) = 1
                     /\ \A n \in CatalogNames \ {d.name} :
                           GetTool(reg_tools', n) = GetTool(reg_tools, n) ]_vars

\* a handler was refused for web.navigate, which has no definition, while
\* social.post keeps its handler under a definition that replaced another
C38_Witness ==
    /\ pc = "import_error"
    /\ failure = "ValueError"
    /\ ~HasTool(reg_tools, "web.navigate")
    /\ ~Bound("web.navigate")
    /\ Bound("social.post")
    /\ GetTool(reg_tools, "social.post").category = "system"
    /\ "social" \in reg_categories

\* the stored email of an id
Stored(emails, email_id) ==
    emails[CHOOSE k \in DOMAIN emails : emails[k].id = email_id]

C39_DefaultFoldersOnce ==
    \A u \in MailUsers :
        (\E n \in default_folders : mail.folders[u][n] > 0) =>
            \A n \in default_folders : mail.folders[u][n] = 1

====
